---- MODULE Spec2Model ----
(***************************************************************************)
(* State-machine model of the OCR auto clicker (src/main.py): the capture  *)
(* store and its JSON file, the click executor (full batch and single      *)
(* region), and the continuous runner (WorkerThread) next to the GUI       *)
(* thread, whose handlers may run nested at QApplication.processEvents().  *)
(***************************************************************************)
EXTENDS Integers, Sequences, FiniteSets, TLC

VARIABLES
    captures,       \* MainWindow.captures: the ordered list of CaptureInfo
    file,           \* saved_captures.json: [state, data]
    worker_thread,  \* MainWindow.worker_thread: 0 for None, else index in threads
    threads,        \* the WorkerThread objects whose run() has not been joined
    gstack,         \* foreground batches in progress on the GUI thread, innermost last
    gwait,          \* "none", or the handler blocked in worker_thread.wait()
    filterOn,       \* the event filter for the Enter key is installed
    closed,         \* closeEvent has run
    pointer,        \* the system mouse pointer
    opsLeft,        \* store mutations the run may still make
    last            \* the handler or step that ran last, and what it reported

vars == <<captures, file, worker_thread, threads, gstack, gwait, filterOn, closed,
          pointer, opsLeft, last>>

(***************************************************************************)
(* Bounds of the model.                                                    *)
(***************************************************************************)
MaxRegions == 2     \* regions the store may hold
MaxThreads == 2     \* WorkerThread objects alive at once
MaxDepth == 1       \* foreground batches nested through processEvents()
MaxOps == 1         \* store mutations (add, delete, cycle, clear) in one run

(***************************************************************************)
(* Data.  A text is a sequence of characters, so that str.strip() is an    *)
(* operation and not the identity.                                         *)
(***************************************************************************)
Go == <<"G", "o">>
GoPadded == <<" ", "G", "o", " ">>
Halt == <<"S">>

\* what the recognizer may return for a live capture
LiveTexts == {Go, Halt}

\* what the capture overlay and the recognizer may yield for a new region: a
\* rectangle (width > 0, height > 0) and its text
Drawn == { [x |-> 10, y |-> 10, width |-> 50, height |-> 20, ocr_text |-> GoPadded],
           [x |-> 0, y |-> 0, width |-> 5, height |-> 3, ocr_text |-> Halt] }

\* where the user left the pointer
UserPoint == <<7, 4>>

Image == "img"

RECURSIVE LStrip(_)
LStrip(s) == IF s # <<>> /\ Head(s) = " " THEN LStrip(Tail(s)) ELSE s

RECURSIVE RStrip(_)
RStrip(s) ==
    IF s # <<>> /\ s[Len(s)] = " " THEN RStrip(SubSeq(s, 1, Len(s) - 1)) ELSE s

\* str.strip()
Strip(s) == RStrip(LStrip(s))

\* CaptureInfo.__init__: click_count starts at 1.  id stands for the identity
\* of the Python object.
DefaultClickCount == 1

CaptureInfo(id, x, y, width, height, image, ocr_text) ==
    [id |-> id, x |-> x, y |-> y, width |-> width, height |-> height,
     image |-> image, ocr_text |-> ocr_text, click_count |-> DefaultClickCount]

NoCapture == CaptureInfo(0, 0, 0, 0, 0, Image, <<>>)

\* base64 of the PNG bytes of a pixmap, and back
EncodeImage(image) == <<"b64png", image>>

\* a load that keeps the base64 text as the image
DecodeImage_Raw(enc) == enc
DecodeImage(enc) == enc[2]

\* to_dict that forgets the click count
to_dict_NoCount(c) ==
    [x |-> c.x, y |-> c.y, width |-> c.width, height |-> c.height,
     ocr_text |-> c.ocr_text, click_count |-> DefaultClickCount,
     encoded_image |-> EncodeImage(c.image)]

\* CaptureInfo.to_dict
to_dict(c) ==
    [x |-> c.x, y |-> c.y, width |-> c.width, height |-> c.height,
     ocr_text |-> c.ocr_text, click_count |-> c.click_count,
     encoded_image |-> EncodeImage(c.image)]

RequiredKeys == {"encoded_image", "x", "y", "width", "height", "ocr_text"}

\* CaptureInfo.from_dict raises KeyError on a record that lacks a field
CanDecode(d) == RequiredKeys \subseteq DOMAIN d

\* CaptureInfo.from_dict: click_count defaults to 1
from_dict(d, id) ==
    [CaptureInfo(id, d.x, d.y, d.width, d.height, DecodeImage(d.encoded_image),
                 d.ocr_text)
        EXCEPT !.click_count =
            IF "click_count" \in DOMAIN d THEN d.click_count ELSE DefaultClickCount]

\* the list comprehension of save_captures_to_json
Snapshot(cs) == [i \in 1..Len(cs) |-> to_dict(cs[i])]

\* save_captures_to_json
save_captures_to_json(cs) == [state |-> "ok", data |-> Snapshot(cs)]

MissingFile == [state |-> "missing", data |-> <<>>]
CorruptFile == [state |-> "corrupt", data |-> <<>>]

\* the file removed and not written again
EmptyFile_Removed == MissingFile

\* json.dump([]) of clear_all_captures
EmptyFile == [state |-> "ok", data |-> <<>>]

\* the records of data that load appends before from_dict raises (all of them
\* when none does)
RECURSIVE LoadItems(_, _)
LoadItems(data, id) ==
    IF data = <<>> \/ ~CanDecode(Head(data)) THEN <<>>
    ELSE <<from_dict(Head(data), id)>> \o LoadItems(Tail(data), id + 1)

\* load_captures_from_json, called on the empty list of a new MainWindow
load_captures_from_json(f) ==
    IF f.state = "ok" THEN LoadItems(f.data, 1) ELSE <<>>

LoadWarns(f) ==
    \/ f.state = "corrupt"
    \/ f.state = "ok" /\ \E i \in 1..Len(f.data) : ~CanDecode(f.data[i])

\* set_click_count: the preset cycle
counts == <<1, 2, 3, 5, 10>>

IndexOf(v) == CHOOSE i \in 1..Len(counts) : counts[i] = v

\* the cycle without the wrap: it stays at the last preset
NextClickCount_NoWrap(cc) ==
    LET current_index == IF \E i \in 1..Len(counts) : counts[i] = cc
                         THEN IndexOf(cc) - 1 ELSE 0
    IN  counts[IF current_index + 1 >= Len(counts) THEN Len(counts)
               ELSE current_index + 2]

NextClickCount(cc) ==
    LET current_index == IF \E i \in 1..Len(counts) : counts[i] = cc
                         THEN IndexOf(cc) - 1 ELSE 0
    IN  counts[((current_index + 1) % Len(counts)) + 1]

\* list.pop() without the row: the last element goes
Pop_Last(cs, row) == SubSeq(cs, 1, Len(cs) - 1)

\* list.pop(row), row counted from 0
Pop(cs, row) == SubSeq(cs, 1, row) \o SubSeq(cs, row + 2, Len(cs))

\* the click point without the halving: the right edge
ClickX_Edge(c) == c.x + c.width

\* the click point of execute_all_clicks and execute_single_click
ClickX(c) == c.x + c.width \div 2
ClickY(c) == c.y + c.height \div 2

\* current_ocr_text.strip() == capture.ocr_text.strip()
TextMatches(current_ocr_text, c) == Strip(current_ocr_text) = Strip(c.ocr_text)

(***************************************************************************)
(* A batch in progress: one call of execute_all_clicks (kind "all") or of  *)
(* execute_single_click (kind "single").  pc is the next step:             *)
(*   begin    processEvents(), then pyautogui.position()                   *)
(*   iter     next capture of the list, screenshot, OCR, comparison        *)
(*   click    processEvents(), moveTo, click, sleep (k clicks issued of n) *)
(*   skip     processEvents(), sleep of the mismatch branch (foreground;   *)
(*            in the background the branch only sleeps)                    *)
(*   restore  moveTo(original_x, original_y) and return                    *)
(* A finished batch has pc "done", or "raised" when an exception reached   *)
(* the except clause.  cap is the capture being processed, as it was when  *)
(* the loop read it; live, tgts and err record what the batch did: the     *)
(* text recognized for cap, the targets of the clicks issued for cap, and  *)
(* the call that raised; seen lists the captures the loop has fetched so   *)
(* far, in the order it fetched them.                                      *)
(***************************************************************************)
NoPoint == <<-1, -1>>

NewFrame(kind, infinite, capture) ==
    [kind |-> kind, infinite |-> infinite, pc |-> "begin", orig |-> NoPoint,
     idx |-> 0, cap |-> capture, live |-> <<>>, n |-> 0, k |-> 0, tgts |-> {},
     err |-> "none", seen |-> <<>>]

IdleFrame == [NewFrame("all", TRUE, NoCapture) EXCEPT !.pc = "idle"]

\* the for loop of execute_all_clicks reads the list at every iteration;
\* execute_single_click works on the one capture it fetched
HasNext(f, cs) == IF f.kind = "all" THEN f.idx < Len(cs) ELSE f.idx < 1
NextCapture(f, cs) == IF f.kind = "all" THEN cs[f.idx + 1] ELSE f.cap

\* the single run looping like the full batch
ClickTimes_Loop(f, c) == c.click_count

\* range(capture.click_count) in execute_all_clicks; execute_single_click has
\* no loop and clicks once
ClickTimes(f, c) == IF f.kind = "all" THEN c.click_count ELSE 1

\* the restore that moves to the last click point
RestoreTarget_Click(f) ==
    IF f.cap.id = 0 THEN f.orig ELSE <<ClickX(f.cap), ClickY(f.cap)>>

\* pyautogui.moveTo(original_x, original_y)
RestoreTarget(f) == f.orig

\* the branch taken after recognition returned text t for capture c
AfterOcr(f, c, t) ==
    LET g == [f EXCEPT !.live = t]
    IN  IF TextMatches(t, c)
        THEN LET n == ClickTimes(g, c)
             IN  [g EXCEPT !.n = n, !.pc = IF n > 0 THEN "click" ELSE "iter"]
        ELSE [g EXCEPT !.n = 0, !.pc = IF g.infinite THEN "iter" ELSE "skip"]

\* each outcome is the frame and the pointer after the step
Outcome(f, p) == [f |-> f, ptr |-> p]

BeginOutcomes(f, p) == { Outcome([f EXCEPT !.orig = p, !.pc = "iter"], p) }

IterOutcomes(f, p, cs) ==
    IF ~HasNext(f, cs) THEN { Outcome([f EXCEPT !.pc = "restore"], p) }
    ELSE LET c == NextCapture(f, cs)
             g == [f EXCEPT !.idx = @ + 1, !.cap = c, !.k = 0, !.n = 0,
                            !.tgts = {}, !.live = <<>>, !.seen = Append(@, c.id)]
         IN  { Outcome([g EXCEPT !.pc = "raised", !.err = "ocr"], p) }
             \cup { Outcome(AfterOcr(g, c, t), p) : t \in LiveTexts }

\* a click whose exception is swallowed: the batch goes on
ClickOutcomes_Swallow(f, p) ==
    LET tgt == <<ClickX(f.cap), ClickY(f.cap)>>
    IN  { Outcome([f EXCEPT !.k = @ + 1, !.tgts = @ \cup {tgt},
                            !.pc = IF f.k + 1 < f.n THEN "click" ELSE "iter"], tgt),
          Outcome([f EXCEPT !.pc = "iter", !.err = "move"], p),
          Outcome([f EXCEPT !.pc = "iter", !.err = "click"], tgt) }

ClickOutcomes(f, p) ==
    LET tgt == <<ClickX(f.cap), ClickY(f.cap)>>
    IN  { Outcome([f EXCEPT !.k = @ + 1, !.tgts = @ \cup {tgt},
                            !.pc = IF f.k + 1 < f.n THEN "click" ELSE "iter"], tgt),
          Outcome([f EXCEPT !.pc = "raised", !.err = "move"], p),
          Outcome([f EXCEPT !.pc = "raised", !.err = "click"], tgt) }

SkipOutcomes(f, p) == { Outcome([f EXCEPT !.pc = "iter"], p) }

\* the except clause reports and returns: it restores nothing
RestoreOutcomes(f, p) ==
    { Outcome([f EXCEPT !.pc = "done"], RestoreTarget(f)),
      Outcome([f EXCEPT !.pc = "raised", !.err = "restore"], p) }

StepOutcomes(f, p, cs) ==
    CASE f.pc = "begin" -> BeginOutcomes(f, p)
      [] f.pc = "iter" -> IterOutcomes(f, p, cs)
      [] f.pc = "click" -> ClickOutcomes(f, p)
      [] f.pc = "skip" -> SkipOutcomes(f, p)
      [] f.pc = "restore" -> RestoreOutcomes(f, p)
      [] OTHER -> {}

Finished(f) == f.pc \in {"done", "raised"}

\* the steps that start with QApplication.processEvents()
EventPoints == {"begin", "click", "skip"}

(***************************************************************************)
(* The GUI thread.  A handler runs when the GUI thread is in an event      *)
(* loop: the main loop, or processEvents() called by a foreground batch.   *)
(***************************************************************************)
\* what the last handler or step was and what it reported; inWait tells that
\* the GUI thread was in the wait() of stop_infinite_execution when it ran
Did(op, out, row, f) ==
    [op |-> op, out |-> out, row |-> row, f |-> f, inWait |-> gwait # "none"]

Top == gstack[Len(gstack)]

AtEventLoop ==
    /\ ~closed
    /\ gwait = "none"
    /\ IF gstack = <<>> THEN TRUE ELSE Top.pc \in EventPoints

ThreadIds == 1..Len(threads)

\* QThread.isRunning
isRunning(t) == t.pc # "finished"

\* self.worker_thread and self.worker_thread.isRunning()
WorkerRunning == worker_thread # 0 /\ isRunning(threads[worker_thread])

\* start_infinite_execution without its test
AlreadyRunning_Never == FALSE

\* the test that makes start_infinite_execution return early
AlreadyRunning == WorkerRunning

\* a stop that does not wait
Joined_NoWait(t) == TRUE

\* QThread.wait returns once run() has returned
Joined(t) == t.pc = "finished"

NewThread == [keep_running |-> TRUE, pc |-> "loop", frame |-> IdleFrame]

FrameIds(f) == {f.cap.id}

UsedIds ==
    {captures[i].id : i \in 1..Len(captures)}
    \cup UNION {FrameIds(gstack[i]) : i \in 1..Len(gstack)}
    \cup UNION {FrameIds(threads[t].frame) : t \in ThreadIds}
    \cup FrameIds(last.f)

\* the identity of a new CaptureInfo object
FreshId == CHOOSE i \in 1..(Cardinality(UsedIds) + 1) : i \notin UsedIds

Rows == -1..(Len(captures) - 1)

\* a start_capture that appends before it recognizes: a failed recognition
\* leaves the region in the list, unsaved
StartCapture_AppendsFirst ==
    /\ AtEventLoop
    /\ \/ /\ last' = Did("add", "none", -1, IdleFrame)
          /\ UNCHANGED <<captures, file, opsLeft>>
       \/ \E r \in Drawn :
            /\ Len(captures) < MaxRegions
            /\ opsLeft > 0
            /\ opsLeft' = opsLeft - 1
            /\ captures' = Append(captures,
                    CaptureInfo(FreshId, r.x, r.y, r.width, r.height, Image,
                                r.ocr_text))
            /\ \/ /\ file' = save_captures_to_json(captures')
                  /\ last' = Did("add", "ok", Len(captures), IdleFrame)
               \/ /\ file' = file
                  /\ last' = Did("add", "warning", -1, IdleFrame)
    /\ UNCHANGED <<worker_thread, threads, gstack, gwait, filterOn, closed, pointer>>

\* start_capture: the overlay yields nothing, or recognition raises, or the
\* new capture is appended and saved
StartCapture ==
    /\ AtEventLoop
    /\ \/ /\ last' = Did("add", "none", -1, IdleFrame)
          /\ UNCHANGED <<captures, file, opsLeft>>
       \/ /\ last' = Did("add", "warning", -1, IdleFrame)
          /\ UNCHANGED <<captures, file, opsLeft>>
       \/ \E r \in Drawn :
            /\ Len(captures) < MaxRegions
            /\ opsLeft > 0
            /\ opsLeft' = opsLeft - 1
            /\ captures' = Append(captures,
                    CaptureInfo(FreshId, r.x, r.y, r.width, r.height, Image,
                                r.ocr_text))
            /\ file' = save_captures_to_json(captures')
            /\ last' = Did("add", "ok", Len(captures), IdleFrame)
    /\ UNCHANGED <<worker_thread, threads, gstack, gwait, filterOn, closed, pointer>>

\* delete_capture, with the list's current row
DeleteCapture ==
    /\ AtEventLoop
    /\ \E current_row \in Rows :
         IF current_row >= 0
         THEN /\ opsLeft > 0
              /\ opsLeft' = opsLeft - 1
              /\ captures' = Pop(captures, current_row)
              /\ file' = save_captures_to_json(captures')
              /\ last' = Did("delete", "ok", current_row, IdleFrame)
         ELSE /\ last' = Did("delete", "none", current_row, IdleFrame)
              /\ UNCHANGED <<captures, file, opsLeft>>
    /\ UNCHANGED <<worker_thread, threads, gstack, gwait, filterOn, closed, pointer>>

\* a cycle that also takes the text of the other drawing as the expected text
SetClickCount_Retext ==
    /\ AtEventLoop
    /\ \E current_row \in Rows :
         IF current_row >= 0
         THEN /\ opsLeft > 0
              /\ opsLeft' = opsLeft - 1
              /\ captures' = [captures EXCEPT
                                ![current_row + 1].click_count = NextClickCount(@),
                                ![current_row + 1].ocr_text =
                                    IF @ = Halt THEN GoPadded ELSE Halt]
              /\ file' = save_captures_to_json(captures')
              /\ last' = Did("cycle", "ok", current_row, IdleFrame)
         ELSE /\ last' = Did("cycle", "none", current_row, IdleFrame)
              /\ UNCHANGED <<captures, file, opsLeft>>
    /\ UNCHANGED <<worker_thread, threads, gstack, gwait, filterOn, closed, pointer>>

\* set_click_count, with the list's current row
SetClickCount ==
    /\ AtEventLoop
    /\ \E current_row \in Rows :
         IF current_row >= 0
         THEN /\ opsLeft > 0
              /\ opsLeft' = opsLeft - 1
              /\ captures' = [captures EXCEPT ![current_row + 1].click_count =
                                                    NextClickCount(@)]
              /\ file' = save_captures_to_json(captures')
              /\ last' = Did("cycle", "ok", current_row, IdleFrame)
         ELSE /\ last' = Did("cycle", "none", current_row, IdleFrame)
              /\ UNCHANGED <<captures, file, opsLeft>>
    /\ UNCHANGED <<worker_thread, threads, gstack, gwait, filterOn, closed, pointer>>

\* the button of execute_all_clicks: the call starts
ExecuteAllClicks ==
    /\ AtEventLoop
    /\ Len(gstack) < MaxDepth
    /\ gstack' = Append(gstack, NewFrame("all", FALSE, NoCapture))
    /\ last' = Did("execute_all", "started", -1, IdleFrame)
    /\ UNCHANGED <<captures, file, worker_thread, threads, gwait, filterOn, closed,
                   pointer, opsLeft>>

\* the button of execute_single_click: no valid row is a warning, else the call
\* starts with the capture of the current row
ExecuteSingleClick ==
    /\ AtEventLoop
    /\ \E current_row \in Rows :
         IF current_row < 0 \/ current_row >= Len(captures)
         THEN /\ last' = Did("execute_single", "warning", current_row, IdleFrame)
              /\ UNCHANGED gstack
         ELSE /\ Len(gstack) < MaxDepth
              /\ gstack' = Append(gstack,
                                  NewFrame("single", FALSE, captures[current_row + 1]))
              /\ last' = Did("execute_single", "started", current_row, IdleFrame)
    /\ UNCHANGED <<captures, file, worker_thread, threads, gwait, filterOn, closed,
                   pointer, opsLeft>>

\* one step of the innermost foreground batch; a finished batch returns
FgStep ==
    /\ gstack # <<>>
    /\ gwait = "none"
    /\ \E o \in StepOutcomes(Top, pointer, captures) :
         /\ pointer' = o.ptr
         /\ IF Finished(o.f)
            THEN /\ gstack' = SubSeq(gstack, 1, Len(gstack) - 1)
                 /\ last' = Did("fg_return",
                                IF o.f.pc = "raised" THEN "warning" ELSE "ok", -1, o.f)
            ELSE /\ gstack' = [gstack EXCEPT ![Len(gstack)] = o.f]
                 /\ last' = Did("fg_step", "none", -1, IdleFrame)
    /\ UNCHANGED <<captures, file, worker_thread, threads, gwait, filterOn, closed,
                   opsLeft>>

\* start_infinite_execution
StartInfinite ==
    /\ AtEventLoop
    /\ IF AlreadyRunning
       THEN /\ last' = Did("start", "already_running", -1, IdleFrame)
            /\ UNCHANGED <<worker_thread, threads, filterOn>>
       ELSE /\ Len(threads) < MaxThreads
            /\ threads' = Append(threads, NewThread)
            /\ worker_thread' = Len(threads) + 1
            /\ filterOn' = TRUE
            /\ last' = Did("start", "started", -1, IdleFrame)
    /\ UNCHANGED <<captures, file, gstack, gwait, closed, pointer, opsLeft>>

\* WorkerThread.stop, then the handler blocks in wait()
BeginStop(who) ==
    /\ threads' = [threads EXCEPT ![worker_thread].keep_running = FALSE]
    /\ gwait' = who
    /\ last' = Did(who, "waiting", -1, IdleFrame)
    /\ UNCHANGED <<captures, file, worker_thread, gstack, filterOn, closed, pointer,
                   opsLeft>>

\* steps 2 to 4 of clear_all_captures: whether os.remove raises or not, the
\* file ends as an empty array
ClearEffects ==
    /\ captures' = <<>>
    /\ file' = EmptyFile
    /\ opsLeft' = opsLeft - 1
    /\ \E removeFails \in BOOLEAN :
         last' = Did("clear", IF removeFails THEN "warning" ELSE "info", -1, IdleFrame)

\* closeEvent after stop_infinite_execution
CloseEffects ==
    /\ file' = save_captures_to_json(captures)
    /\ closed' = TRUE
    /\ last' = Did("close", "ok", -1, IdleFrame)
    /\ UNCHANGED <<captures, opsLeft>>

\* eventFilter on Enter: stop_infinite_execution
EnterKey ==
    /\ AtEventLoop
    /\ filterOn
    /\ IF WorkerRunning
       THEN BeginStop("enter")
       ELSE /\ filterOn' = FALSE
            /\ last' = Did("enter", "idle", -1, IdleFrame)
            /\ UNCHANGED <<captures, file, worker_thread, threads, gstack, gwait,
                           closed, pointer, opsLeft>>

\* clear_all_captures, confirmed or not
ClearAll ==
    /\ AtEventLoop
    /\ \/ /\ last' = Did("clear", "declined", -1, IdleFrame)
          /\ UNCHANGED <<captures, file, worker_thread, threads, gstack, gwait,
                         filterOn, closed, pointer, opsLeft>>
       \/ /\ opsLeft > 0
          /\ IF WorkerRunning
             THEN BeginStop("clear")
             ELSE /\ filterOn' = FALSE
                  /\ ClearEffects
                  /\ UNCHANGED <<worker_thread, threads, gstack, gwait, closed,
                                 pointer>>

\* a closeEvent whose stop creates a loop when none runs
CloseEvent_Touches ==
    /\ AtEventLoop
    /\ IF WorkerRunning
       THEN BeginStop("close")
       ELSE /\ filterOn' = FALSE
            /\ CloseEffects
            /\ threads' = Append(threads, NewThread)
            /\ worker_thread' = Len(threads) + 1
            /\ UNCHANGED <<gstack, gwait, pointer>>

\* closeEvent
CloseEvent ==
    /\ AtEventLoop
    /\ IF WorkerRunning
       THEN BeginStop("close")
       ELSE /\ filterOn' = FALSE
            /\ CloseEffects
            /\ UNCHANGED <<worker_thread, threads, gstack, gwait, pointer>>

\* wait() returns: the rest of stop_infinite_execution and of its caller
WaitReturns ==
    /\ gwait # "none"
    /\ Joined(threads[worker_thread])
    /\ threads' = Pop(threads, worker_thread - 1)
    /\ worker_thread' = 0
    /\ filterOn' = FALSE
    /\ gwait' = "none"
    /\ CASE gwait = "enter" ->
              /\ last' = Did("enter", "stopped", -1, IdleFrame)
              /\ UNCHANGED <<captures, file, closed, opsLeft>>
         [] gwait = "clear" ->
              /\ ClearEffects
              /\ UNCHANGED closed
         [] OTHER -> CloseEffects
    /\ UNCHANGED <<gstack, pointer>>

(***************************************************************************)
(* WorkerThread.run                                                        *)
(***************************************************************************)
\* a loop that never reads the flag
ThreadLoop_Forever(t) ==
    /\ threads[t].pc = "loop"
    /\ threads' = [threads EXCEPT ![t] =
            [@ EXCEPT !.pc = "batch", !.frame = NewFrame("all", TRUE, NoCapture)]]
    /\ last' = Did("bg_loop", "none", -1, IdleFrame)
    /\ UNCHANGED <<captures, file, worker_thread, gstack, gwait, filterOn, closed,
                   pointer, opsLeft>>

\* while self.keep_running: the loop test, after the sleep of the last round
ThreadLoop(t) ==
    /\ threads[t].pc = "loop"
    /\ threads' = [threads EXCEPT ![t] =
            IF @.keep_running
            THEN [@ EXCEPT !.pc = "batch", !.frame = NewFrame("all", TRUE, NoCapture)]
            ELSE [@ EXCEPT !.pc = "finished"]]
    /\ last' = Did("bg_loop", "none", -1, IdleFrame)
    /\ UNCHANGED <<captures, file, worker_thread, gstack, gwait, filterOn, closed,
                   pointer, opsLeft>>

\* a run() that lets the exception of a batch through: the thread ends
ThreadStep_DiesOnError(t) ==
    /\ threads[t].pc = "batch"
    /\ \E o \in StepOutcomes(threads[t].frame, pointer, captures) :
         /\ pointer' = o.ptr
         /\ IF Finished(o.f)
            THEN /\ threads' = [threads EXCEPT
                        ![t].pc = IF o.f.pc = "raised" THEN "finished" ELSE "loop",
                        ![t].frame = IdleFrame]
                 /\ last' = Did("bg_return", "none", -1, o.f)
            ELSE /\ threads' = [threads EXCEPT ![t].frame = o.f]
                 /\ last' = Did("bg_step", "none", -1, IdleFrame)
    /\ UNCHANGED <<captures, file, worker_thread, gstack, gwait, filterOn, closed,
                   opsLeft>>

\* a background batch that stores the text it recognized as the expected text
ThreadStep_Relearns(t) ==
    /\ threads[t].pc = "batch"
    /\ \E o \in StepOutcomes(threads[t].frame, pointer, captures) :
         /\ pointer' = o.ptr
         /\ captures' = [i \in 1..Len(captures) |->
                IF captures[i].id = o.f.cap.id /\ o.f.live # <<>>
                THEN [captures[i] EXCEPT !.ocr_text = o.f.live]
                ELSE captures[i]]
         /\ IF Finished(o.f)
            THEN /\ threads' = [threads EXCEPT ![t].pc = "loop", ![t].frame = IdleFrame]
                 /\ last' = Did("bg_return", "none", -1, o.f)
            ELSE /\ threads' = [threads EXCEPT ![t].frame = o.f]
                 /\ last' = Did("bg_step", "none", -1, IdleFrame)
    /\ UNCHANGED <<file, worker_thread, gstack, gwait, filterOn, closed, opsLeft>>

\* one step of execute_all_clicks(infinite_mode=True); a finished batch returns
\* to the sleep of run()
ThreadStep(t) ==
    /\ threads[t].pc = "batch"
    /\ \E o \in StepOutcomes(threads[t].frame, pointer, captures) :
         /\ pointer' = o.ptr
         /\ IF Finished(o.f)
            THEN /\ threads' = [threads EXCEPT ![t].pc = "loop", ![t].frame = IdleFrame]
                 /\ last' = Did("bg_return", "none", -1, o.f)
            ELSE /\ threads' = [threads EXCEPT ![t].frame = o.f]
                 /\ last' = Did("bg_step", "none", -1, IdleFrame)
    /\ UNCHANGED <<captures, file, worker_thread, gstack, gwait, filterOn, closed,
                   opsLeft>>

(***************************************************************************)
(* The file found at startup.                                              *)
(***************************************************************************)
\* the record saved for a region drawn as d, with click count cc
Stored(d, cc) ==
    [to_dict(CaptureInfo(1, d.x, d.y, d.width, d.height, Image, d.ocr_text))
        EXCEPT !.click_count = cc]

\* a record without click_count, and one without x
WithoutKey(d, key) == [k \in (DOMAIN d) \ {key} |-> d[k]]

DrawnGo == CHOOSE d \in Drawn : d.ocr_text = GoPadded
DrawnHalt == CHOOSE d \in Drawn : d.ocr_text = Halt

InitData ==
    { <<>>,
      <<Stored(DrawnGo, 10)>>,
      <<Stored(DrawnHalt, 4)>>,                \* edited by hand: not a preset
      <<WithoutKey(Stored(DrawnGo, 2), "click_count")>>,
      <<Stored(DrawnGo, 2), Stored(DrawnHalt, 5)>>,
      <<Stored(DrawnHalt, 3), WithoutKey(Stored(DrawnGo, 1), "x")>> }

InitFiles ==
    { MissingFile, CorruptFile } \cup { [state |-> "ok", data |-> d] : d \in InitData }

Init ==
    /\ file \in InitFiles
    /\ captures = load_captures_from_json(file)
    /\ worker_thread = 0
    /\ threads = <<>>
    /\ gstack = <<>>
    /\ gwait = "none"
    /\ filterOn = FALSE
    /\ closed = FALSE
    /\ pointer = UserPoint
    /\ opsLeft = MaxOps
    /\ last = Did("init", IF LoadWarns(file) THEN "warning" ELSE "none", -1, IdleFrame)

Next ==
    \/ StartCapture
    \/ DeleteCapture
    \/ SetClickCount
    \/ ExecuteAllClicks
    \/ ExecuteSingleClick
    \/ FgStep
    \/ StartInfinite
    \/ EnterKey
    \/ ClearAll
    \/ CloseEvent
    \/ WaitReturns
    \/ \E t \in ThreadIds : ThreadLoop(t)
    \/ \E t \in ThreadIds : ThreadStep(t)

Spec == Init /\ [][Next]_vars

(***************************************************************************)
(* What the claims speak of.                                               *)
(***************************************************************************)
\* every batch of the state: in progress on either side, or just returned
AllFrames ==
    {gstack[i] : i \in 1..Len(gstack)} \cup {threads[t].frame : t \in ThreadIds}
    \cup {last.f}

\* the center of a region, by integer division
Center(c) == <<c.x + c.width \div 2, c.y + c.height \div 2>>

\* the recognized text equals the stored text after trimming both
Matched(f) == Strip(f.live) = Strip(f.cap.ocr_text)

\* the batch has finished with its current region without raising on it
RegionDone(f) ==
    /\ f.cap.id # 0
    /\ \/ f.pc \in {"iter", "restore", "done"}
       \/ f.pc = "raised" /\ f.err = "restore"

Returned == last.op \in {"fg_return", "bg_return"}

BackgroundBatches == {t \in ThreadIds : threads[t].pc = "batch"}

\* the file holds the regions of the store, in order, with their fields
SameAsStore ==
    /\ file.state = "ok"
    /\ Len(file.data) = Len(captures)
    /\ \A i \in 1..Len(captures) :
         /\ file.data[i].x = captures[i].x
         /\ file.data[i].y = captures[i].y
         /\ file.data[i].width = captures[i].width
         /\ file.data[i].height = captures[i].height
         /\ file.data[i].ocr_text = captures[i].ocr_text
         /\ file.data[i].click_count = captures[i].click_count

Presets == {1, 2, 3, 5, 10}

\* the cycle 1 -> 2 -> 3 -> 5 -> 10 -> 1
Successor(v) ==
    CASE v = 1 -> 2 [] v = 2 -> 3 [] v = 3 -> 5 [] v = 5 -> 10 [] v = 10 -> 1

Cycle5(v) ==
    NextClickCount(NextClickCount(NextClickCount(NextClickCount(NextClickCount(v)))))

(***************************************************************************)
(* C1: at most one batch-click operation is in flight in every reachable   *)
(* state: foreground batches (full or single-region) and background        *)
(* batches never overlap.  The code has no such exclusion: this fails.     *)
(***************************************************************************)
C1_OneBatchInFlight == Len(gstack) + Cardinality(BackgroundBatches) <= 1

(***************************************************************************)
(* C2: at most one background loop exists at a time; a start issued while  *)
(* the Runner is running spawns no loop, leaves the loop and the Runner    *)
(* state as they are, and reports that it is already running.              *)
(***************************************************************************)
LiveLoops == {t \in ThreadIds : threads[t].pc # "finished"}

C2_StartWhileRunning ==
    (last'.op = "start" /\ WorkerRunning) =>
        /\ UNCHANGED <<threads, worker_thread, filterOn, captures, file, gstack>>
        /\ last'.out = "already_running"

C2_SingleRunner ==
    /\ [](Cardinality(LiveLoops) <= 1)
    /\ [][C2_StartWhileRunning]_vars

C2_Witness ==
    /\ last.op = "start" /\ last.out = "already_running"
    /\ Cardinality(LiveLoops) = 1
    /\ BackgroundBatches # {}

(***************************************************************************)
(* C3: stop never interrupts a batch.  A background batch with regions     *)
(* left goes on to the next region whatever the running flag says; the     *)
(* loop ends only at its test between batches, with the flag false; and    *)
(* stop returns only after run() has returned.                             *)
(***************************************************************************)
C3_BatchGoesOn ==
    \A t \in ThreadIds :
        ( /\ t <= Len(threads')
          /\ threads[t].pc = "batch"
          /\ threads[t].frame.pc = "iter"
          /\ threads[t].frame.idx < Len(captures)
          /\ threads'[t].frame # threads[t].frame )
        => \/ /\ threads'[t].pc = "batch"
              /\ threads'[t].frame.idx = threads[t].frame.idx + 1
           \/ /\ last'.op = "bg_return"
              /\ last'.f.pc = "raised"
              /\ last'.f.idx = threads[t].frame.idx + 1

C3_LoopEndsBetweenBatches ==
    \A t \in ThreadIds :
        (t <= Len(threads') /\ threads[t].pc # "finished"
            /\ threads'[t].pc = "finished")
        => threads[t].pc = "loop" /\ ~threads[t].keep_running

C3_StopWaits ==
    (gwait # "none" /\ gwait' = "none") =>
        /\ threads[worker_thread].pc = "finished"
        /\ BackgroundBatches = {}

C3_StopNeverInterrupts ==
    /\ [][C3_BatchGoesOn]_vars
    /\ [][C3_LoopEndsBetweenBatches]_vars
    /\ [][C3_StopWaits]_vars

\* stop is waiting, and the batch that was in flight has reached its end
C3_Witness ==
    /\ gwait = "enter"
    /\ \E t \in BackgroundBatches :
         /\ ~threads[t].keep_running
         /\ threads[t].frame.pc = "restore"
         /\ threads[t].frame.idx = 2

(***************************************************************************)
(* C4: in a full batch, a region whose recognized text equals the stored   *)
(* text after trimming gets exactly click_count clicks, all aimed at       *)
(* (x + width // 2, y + height // 2); a region whose text differs gets no  *)
(* click and no error, and the batch goes on.                              *)
(***************************************************************************)
C4_FullBatchClicks ==
    \A f \in AllFrames :
        f.kind = "all" =>
            /\ RegionDone(f) =>
                 IF Matched(f)
                 THEN /\ f.k = f.cap.click_count
                      /\ f.tgts = IF f.k > 0 THEN {Center(f.cap)} ELSE {}
                 ELSE f.k = 0 /\ f.tgts = {}
            /\ f.pc = "skip" => ~Matched(f) /\ f.k = 0 /\ f.err = "none"
            /\ f.pc = "click" =>
                 /\ Matched(f)
                 /\ f.k < f.cap.click_count
                 /\ f.tgts \subseteq {Center(f.cap)}
            /\ (f.cap.id # 0 /\ f.live # <<>> /\ ~Matched(f)) =>
                 f.err \in {"none", "restore"}

\* the scenario of the specification: two clicks at (35, 20), then a region
\* that does not match
C4_Witness ==
    \E f \in AllFrames :
        /\ f.kind = "all" /\ f.pc = "iter" /\ f.idx = 1
        /\ Matched(f) /\ f.live # f.cap.ocr_text
        /\ f.k = 2 /\ f.tgts = {<<35, 20>>}

(***************************************************************************)
(* C5 as claimed: the single-region run clicks the center of the selected  *)
(* region click_count times on a match and never on a mismatch.            *)
(***************************************************************************)
C5_SingleClicksCount ==
    (Returned /\ last.f.kind = "single" /\ last.f.pc = "done") =>
        IF Matched(last.f)
        THEN last.f.k = last.f.cap.click_count /\ last.f.tgts = {Center(last.f.cap)}
        ELSE last.f.k = 0 /\ last.f.tgts = {}

(***************************************************************************)
(* C5 amended: the single-region run works on the region selected when it  *)
(* started and on no other; on a match it clicks the center of that region *)
(* exactly once, whatever click_count is; on a mismatch it does not click. *)
(***************************************************************************)
C5_SingleResult ==
    /\ (last.op = "execute_single" /\ last.out = "started") =>
            /\ Top.kind = "single"
            /\ Top.cap = captures[last.row + 1]
            /\ Top.idx = 0
    /\ \A f \in AllFrames :
         f.kind = "single" =>
            /\ f.idx <= 1
            /\ f.k <= 1
            /\ f.tgts \subseteq {Center(f.cap)}
            /\ (f.pc = "done" \/ (f.pc = "restore" /\ f.idx = 1)) =>
                 IF Matched(f)
                 THEN f.k = 1 /\ f.tgts = {Center(f.cap)}
                 ELSE f.k = 0 /\ f.tgts = {}

C5_SameRegion ==
    \A i \in 1..Len(gstack) :
        gstack[i].kind = "single" =>
            \/ /\ i <= Len(gstack')
               /\ gstack'[i].kind = "single"
               /\ gstack'[i].cap = gstack[i].cap
            \/ /\ i = Len(gstack)
               /\ Len(gstack') = Len(gstack) - 1
               /\ last'.op = "fg_return"
               /\ last'.f.cap = gstack[i].cap

C5_SingleClicksOnce ==
    /\ []C5_SingleResult
    /\ [][C5_SameRegion]_vars

C5_Witness ==
    /\ Returned /\ last.f.kind = "single" /\ last.f.pc = "done"
    /\ Matched(last.f)
    /\ last.f.cap.click_count = 10
    /\ last.f.k = 1

(***************************************************************************)
(* C6: when a full batch or a single-region run returns without an         *)
(* exception, the pointer is where it was when the batch read its position *)
(* at the start, whatever the store holds and whatever matched.            *)
(***************************************************************************)
C6_AtReturn ==
    (Returned /\ last.f.pc = "done") =>
        /\ last.f.orig # NoPoint
        /\ pointer = last.f.orig

C6_OriginRead ==
    /\ \A i \in 1..Len(gstack) :
         (i <= Len(gstack') /\ gstack[i].pc = "begin" /\ gstack'[i].pc # "begin")
            => gstack'[i].orig = pointer
    /\ \A t \in ThreadIds :
         ( /\ t <= Len(threads') /\ threads[t].pc = "batch"
           /\ threads[t].frame.pc = "begin" /\ threads'[t].pc = "batch"
           /\ threads'[t].frame.pc # "begin" )
            => threads'[t].frame.orig = pointer
    /\ \A f \in AllFrames : (f.pc = "begin" /\ f.orig # NoPoint) => FALSE

C6_PointerRestored ==
    /\ []C6_AtReturn
    /\ [][C6_OriginRead]_vars

\* a batch over two regions that clicked the second one and came back
C6_Witness ==
    /\ Returned /\ last.f.pc = "done"
    /\ last.f.kind = "all" /\ last.f.idx = 2 /\ last.f.k > 0
    /\ pointer = UserPoint

(***************************************************************************)
(* C7: when a call raises in a batch after the pointer was moved, the      *)
(* restoration of the pointer is still attempted before the batch returns. *)
(* The except clauses only report: this fails.                             *)
(***************************************************************************)
RestoreAttempted(f) == f.pc = "done" \/ f.err = "restore"

MovedThenRaised(f) ==
    f.pc = "raised" /\ (f.err = "click" \/ (f.err \in {"ocr", "move"} /\ f.idx > 1))

C7_RestoreAfterFailure ==
    (Returned /\ MovedThenRaised(last.f)) =>
        RestoreAttempted(last.f) \/ pointer = last.f.orig

(***************************************************************************)
(* C8: after every completed mutation of the store (add, remove, cycle of  *)
(* the click count, delete-all) and after the save at shutdown, the file   *)
(* holds the regions of the store: as many, in the same order, with the    *)
(* same bounds, text and click count.                                      *)
(***************************************************************************)
Mutated ==
    \/ last.op \in {"add", "delete", "cycle"} /\ last.out = "ok"
    \/ last.op = "clear" /\ last.out \in {"info", "warning"}
    \/ last.op = "close" /\ last.out = "ok"

C8_FileIsSnapshot == Mutated => SameAsStore

C8_Witness ==
    /\ last.op = "cycle" /\ last.out = "ok"
    /\ Len(captures) = 2
    /\ captures[2].click_count = 10
    /\ file.data[2].click_count = 10

(***************************************************************************)
(* C9: cycling the click count follows 1 -> 2 -> 3 -> 5 -> 10 -> 1: from a *)
(* preset value it gives the next one, five applications give the value    *)
(* back, and it never gives a value outside the presets.                   *)
(***************************************************************************)
C9_CycleStep ==
    (last'.op = "cycle" /\ last'.out = "ok") =>
        LET r == last'.row + 1
            old == captures[r].click_count
            new == captures'[r].click_count
        IN  /\ Len(captures') = Len(captures)
            /\ new \in Presets
            /\ old \in Presets => new = Successor(old) /\ Cycle5(old) = old
            /\ \A i \in 1..Len(captures) : i # r => captures'[i] = captures[i]
            /\ captures'[r] = [captures[r] EXCEPT !.click_count = new]

C9_CycleIsBijection == [][C9_CycleStep]_vars

\* the wrap: a click count of 10 became 1
C9_Witness ==
    /\ last.op = "cycle" /\ last.out = "ok"
    /\ captures[last.row + 1].click_count = 1

(***************************************************************************)
(* C10 as claimed: a remove with an index outside the store fails, with an *)
(* error, and leaves the store and the file as they are.                   *)
(***************************************************************************)
C10_OutOfRangeFails ==
    (last'.op = "delete" /\ last'.row \notin 0..(Len(captures) - 1)) =>
        /\ UNCHANGED <<captures, file>>
        /\ last'.out \in {"error", "warning"}

C10_RemoveOutOfRangeFails == [][C10_OutOfRangeFails]_vars

(***************************************************************************)
(* C10 amended: a remove without a current row (-1, the one index outside  *)
(* the store the list can give) is ignored in silence: no error is raised  *)
(* or reported, and the store and the file stay as they are.  A remove     *)
(* with a row of the store deletes that region alone, keeps the order of   *)
(* the others, and saves the result.                                       *)
(***************************************************************************)
C10_RemoveStep ==
    last'.op = "delete" =>
        IF last'.row \in 0..(Len(captures) - 1)
        THEN /\ last'.out = "ok"
             /\ Len(captures') = Len(captures) - 1
             /\ \A i \in 1..Len(captures') :
                  captures'[i] = IF i <= last'.row THEN captures[i] ELSE captures[i + 1]
             /\ SameAsStore'
        ELSE /\ last'.row = -1
             /\ last'.out = "none"
             /\ UNCHANGED <<captures, file>>

C10_RemoveIgnoredOrExact == [][C10_RemoveStep]_vars

\* the first of two regions was deleted: the second is now the first
C10_Witness ==
    /\ last.op = "delete" /\ last.out = "ok" /\ last.row = 0
    /\ Len(captures) = 1
    /\ captures[1].id = 2

(***************************************************************************)
(* Saving and loading on their own: a store of any content within the      *)
(* bounds is saved, and the file is loaded as a new MainWindow loads it.    *)
(***************************************************************************)
Images == {Image, "img2"}

ClickCounts == Presets \cup {4}

\* the CaptureInfo objects a store can hold
Regions ==
    { [CaptureInfo(0, d.x, d.y, d.width, d.height, im, d.ocr_text)
          EXCEPT !.click_count = cc] : d \in Drawn, im \in Images, cc \in ClickCounts }

RECURSIVE StoresOfLen(_)
StoresOfLen(n) ==
    IF n = 0 THEN { <<>> }
    ELSE { Append(cs, r) : cs \in StoresOfLen(n - 1), r \in Regions }

Stores == UNION { StoresOfLen(n) : n \in 0..MaxRegions }

StoreInit ==
    /\ captures \in Stores
    /\ file = MissingFile
    /\ worker_thread = 0
    /\ threads = <<>>
    /\ gstack = <<>>
    /\ gwait = "none"
    /\ filterOn = FALSE
    /\ closed = FALSE
    /\ pointer = UserPoint
    /\ opsLeft = MaxOps
    /\ last = Did("init", "none", -1, IdleFrame)

\* save_captures_to_json
SaveStep ==
    /\ file' = save_captures_to_json(captures)
    /\ last' = Did("save", "ok", -1, IdleFrame)
    /\ UNCHANGED <<captures, worker_thread, threads, gstack, gwait, filterOn, closed,
                   pointer, opsLeft>>

\* load_captures_from_json in the next run of the program
LoadStep ==
    /\ captures' = load_captures_from_json(file)
    /\ last' = Did("load", IF LoadWarns(file) THEN "warning" ELSE "none", -1, IdleFrame)
    /\ UNCHANGED <<file, worker_thread, threads, gstack, gwait, filterOn, closed,
                   pointer, opsLeft>>

StoreNext == SaveStep \/ LoadStep

StoreSpec == StoreInit /\ [][StoreNext]_vars

\* the same regions in the same order: bounds, text, click count and image
Equivalent(cs, ds) ==
    /\ Len(cs) = Len(ds)
    /\ \A i \in 1..Len(cs) :
         /\ cs[i].x = ds[i].x
         /\ cs[i].y = ds[i].y
         /\ cs[i].width = ds[i].width
         /\ cs[i].height = ds[i].height
         /\ cs[i].ocr_text = ds[i].ocr_text
         /\ cs[i].click_count = ds[i].click_count
         /\ cs[i].image = ds[i].image

(***************************************************************************)
(* C11: a load that follows a save gives a store equivalent to the one     *)
(* saved: as many regions, in the same order, each with the same bounds,   *)
(* text, click count and image.                                            *)
(***************************************************************************)
C11_LoadAfterSave ==
    (last.op = "save" /\ last'.op = "load") => Equivalent(captures', captures)

Malformed(f) ==
    \/ f.state = "corrupt"
    \/ f.state = "ok" /\ \E i \in 1..Len(f.data) : ~(RequiredKeys \subseteq DOMAIN f.data[i])

C12_LoadFallsBackToEmpty ==
    last.op = "init" =>
        /\ (file.state = "missing" \/ Malformed(file)) => captures = <<>>
        /\ Malformed(file) => last.out = "warning"

(***************************************************************************)
(* C13: a confirmed delete-all ends with an empty store and a file that    *)
(* holds an empty sequence, whatever the store held, whether the Runner    *)
(* was idle or running (the delete-all then stops it first), and whether   *)
(* removing the file succeeded or not.                                     *)
(***************************************************************************)
Cleared == last.op = "clear" /\ last.out \in {"info", "warning"}

EmptyEverywhere == captures = <<>> /\ file.state = "ok" /\ file.data = <<>>

C13_ClearStep ==
    /\ (gwait = "clear" /\ gwait' = "none") => Cleared' /\ worker_thread' = 0
    /\ (gwait = "none" /\ Cleared') => ~WorkerRunning
    /\ Cleared' => EmptyEverywhere'

C13_ClearAllEmpties ==
    /\ [](Cleared => EmptyEverywhere)
    /\ [][C13_ClearStep]_vars

\* the Runner was running and was stopped, the removal of the file failed, and
\* all is empty
C13_Witness ==
    /\ Cleared /\ last.out = "warning"
    /\ EmptyEverywhere
    /\ last.inWait
    /\ pointer # UserPoint
    /\ worker_thread = 0 /\ threads = <<>>

(***************************************************************************)
(* C14: from its creation until it is deleted, a region keeps its expected *)
(* text, its reference image and its bounds: no step changes them, be it a *)
(* cycle of the click count, the removal of another region, a step of a    *)
(* batch in the foreground or in the background, or a recognition that     *)
(* reads another text from the screen.                                     *)
(***************************************************************************)
SameCreation(c, d) ==
    /\ c.ocr_text = d.ocr_text
    /\ c.image = d.image
    /\ c.x = d.x /\ c.y = d.y /\ c.width = d.width /\ c.height = d.height

C14_RegionKept ==
    \A i \in 1..Len(captures) : \A j \in 1..Len(captures') :
        captures[i].id = captures'[j].id => SameCreation(captures[i], captures'[j])

C14_TextAndImageImmutable == [][C14_RegionKept]_vars

\* the click count of a region was cycled (2 -> 3), then a batch read another
\* text for that region and returned: the region still expects its text
C14_Witness ==
    /\ Returned /\ last.f.pc = "done"
    /\ last.f.live = Halt
    /\ \E i \in 1..Len(captures) :
         /\ captures[i].id = last.f.cap.id
         /\ captures[i].click_count = 3
         /\ captures[i].ocr_text = GoPadded
         /\ captures[i].image = Image

(***************************************************************************)
(* C15: a stop called while the Runner is idle does nothing: the Runner    *)
(* stays idle, no loop is created or touched, and the stop changes neither *)
(* the store nor the file.  Stop is called while idle by closeEvent and by *)
(* a confirmed delete-all (the Enter filter is installed only while the    *)
(* Runner runs); what these callers do after the stop is theirs: closeEvent *)
(* saves the store as it is, delete-all empties store and file.            *)
(***************************************************************************)
StopsWhileIdle ==
    /\ ~WorkerRunning
    /\ gwait = "none"
    /\ \/ last'.op = "close"
       \/ Cleared'
       \/ last'.op = "enter"

C15_IdleStop ==
    StopsWhileIdle =>
        /\ UNCHANGED <<threads, worker_thread, gwait, gstack, pointer>>
        /\ ~WorkerRunning'
        /\ ~last'.inWait
        /\ last'.op = "close" =>
              captures' = captures /\ file' = save_captures_to_json(captures)
        /\ last'.op = "enter" => UNCHANGED <<captures, file>>

C16_FailedAdd ==
    (last'.op = "add" /\ last'.out \in {"none", "warning"}) =>
        UNCHANGED <<captures, file>>

C16_FailedAddChangesNothing == [][C16_FailedAdd]_vars

\* recognition raised on an add to a store of one region: one region still
C16_Witness ==
    /\ last.op = "add" /\ last.out = "warning"
    /\ Len(captures) = 1
    /\ captures[1].click_count = 10
    /\ file = save_captures_to_json(captures)
    /\ opsLeft = MaxOps

(***************************************************************************)
(* C17: the executor and the loop of the Runner only read the store: no    *)
(* step of a batch (foreground or background, single or full, going on,    *)
(* returning or aborted by an exception), no start of a batch and no test  *)
(* of the loop changes the list of regions, a field of a region or the     *)
(* file; a step that changes the store or the file is a handler of the     *)
(* GUI thread: add, delete, cycle, delete-all or close.                    *)
(***************************************************************************)
ExecutorOps ==
    {"fg_step", "fg_return", "bg_step", "bg_return", "bg_loop", "execute_all",
     "execute_single"}

StoreHandlers == {"add", "delete", "cycle", "clear", "close"}

C17_ReadOnlyStep ==
    /\ last'.op \in ExecutorOps => UNCHANGED <<captures, file>>
    /\ (captures' # captures \/ file' # file) =>
          /\ last'.op \in StoreHandlers
          /\ \A t \in ThreadIds :
                t <= Len(threads') => threads'[t].frame = threads[t].frame
          /\ gstack' = gstack

C17_ExecutorOnlyReads == [][C17_ReadOnlyStep]_vars

\* a background batch over two regions clicked the second, the click raised,
\* and the batch returned: the store and the file hold the two regions
C17_Witness ==
    /\ last.op = "bg_return"
    /\ last.f.pc = "raised" /\ last.f.err = "click" /\ last.f.idx = 2
    /\ Len(captures) = 2
    /\ captures[2] = last.f.cap
    /\ file.state = "ok" /\ Len(file.data) = 2

(***************************************************************************)
(* C18: an exception raised by the capture, the recognition or the click   *)
(* of region i of a full batch ends that batch: the call returns in that   *)
(* step, having processed no region after i and issued no click after the  *)
(* exception; a batch in flight is never one that has raised.              *)
(***************************************************************************)
InFlight ==
    {gstack[i] : i \in 1..Len(gstack)}
    \cup {threads[t].frame : t \in BackgroundBatches}

\* the batch f returned as g because of an exception in the region it was at
AbortedAs(f, g) ==
    /\ g.kind = f.kind
    /\ g.err \in {"ocr", "move", "click", "restore"}
    /\ IF f.pc = "iter" /\ g.err = "ocr"
       THEN /\ g.idx = f.idx + 1
            /\ g.k = 0 /\ g.tgts = {}
            /\ f.kind = "all" => (g.idx <= Len(captures) /\ g.cap = captures[g.idx])
       ELSE /\ g.idx = f.idx /\ g.cap = f.cap
            /\ g.k = f.k /\ g.tgts = f.tgts

C18_AbortStep ==
    /\ (last'.op = "fg_return" /\ last'.f.pc = "raised") =>
          /\ gstack' = SubSeq(gstack, 1, Len(gstack) - 1)
          /\ AbortedAs(Top, last'.f)
    /\ (last'.op = "bg_return" /\ last'.f.pc = "raised") =>
          \E t \in BackgroundBatches :
              /\ threads'[t].pc = "loop"
              /\ threads'[t].frame = IdleFrame
              /\ AbortedAs(threads[t].frame, last'.f)

C18_NoneGoesOn == \A f \in InFlight : f.err = "none" /\ ~Finished(f)

C18_ExceptionAbortsBatch ==
    /\ []C18_NoneGoesOn
    /\ [][C18_AbortStep]_vars

\* the second of two clicks of region 1 raised in a full batch over two regions:
\* the batch returned with one click made and region 2 untouched
C18_Witness ==
    /\ Returned
    /\ last.f.kind = "all" /\ last.f.pc = "raised" /\ last.f.err = "click"
    /\ last.f.idx = 1 /\ last.f.k = 1 /\ last.f.cap.click_count = 2
    /\ Len(captures) = 2
    /\ last.f \notin InFlight

(***************************************************************************)
(* C19: an add appends the new region at the end of the store with a click *)
(* count of 1, and a full batch goes through the regions in the order of   *)
(* the store: when it leaves its loop, it has fetched each region of the   *)
(* store exactly once, in their order.  The loop indexes a list that the   *)
(* handlers of the GUI thread may shorten meanwhile: this fails.           *)
(***************************************************************************)
PlaceIn(seq, id) == CHOOSE j \in 1..Len(seq) : seq[j] = id

EachOnceInOrder(f) ==
    /\ \A i \in 1..Len(captures) : \E j \in 1..Len(f.seen) : f.seen[j] = captures[i].id
    /\ \A j \in 1..Len(f.seen) : \A k \in 1..Len(f.seen) :
          j # k => f.seen[j] # f.seen[k]
    /\ \A i \in 1..Len(captures) : \A k \in 1..Len(captures) :
          ( /\ i < k
            /\ \E j \in 1..Len(f.seen) : f.seen[j] = captures[i].id
            /\ \E j \in 1..Len(f.seen) : f.seen[j] = captures[k].id )
          => PlaceIn(f.seen, captures[i].id) < PlaceIn(f.seen, captures[k].id)

LeavesLoop(f, g) == f.kind = "all" /\ f.pc = "iter" /\ g.pc = "restore"

C19_OrderStep ==
    /\ (last'.op = "add" /\ last'.out = "ok") =>
          /\ Len(captures') = Len(captures) + 1
          /\ SubSeq(captures', 1, Len(captures)) = captures
          /\ captures'[Len(captures')].click_count = 1
    /\ (last'.op = "fg_step" /\ LeavesLoop(Top, Top')) => EachOnceInOrder(Top)
    /\ \A t \in BackgroundBatches :
          (last'.op = "bg_step" /\ LeavesLoop(threads[t].frame, threads'[t].frame))
              => EachOnceInOrder(threads[t].frame)

C19_InsertionOrderOnce == [][C19_OrderStep]_vars

(***************************************************************************)
(* The Runner on its own: start, the three stops and the worker thread,    *)
(* with a scheduler that lets the worker thread run: a thread that can     *)
(* take a step takes one in the end, and wait() returns once the thread    *)
(* has finished.  While the GUI thread is in wait() it runs no handler and *)
(* no step of a foreground batch, so only the worker thread moves between  *)
(* a stop and its return.                                                  *)
(***************************************************************************)
WorkerRuns == \E t \in ThreadIds : ThreadLoop(t) \/ ThreadStep(t)

RunnerNext ==
    \/ StartInfinite
    \/ EnterKey
    \/ ClearAll
    \/ CloseEvent
    \/ WaitReturns
    \/ \E t \in ThreadIds : ThreadLoop(t)
    \/ \E t \in ThreadIds : ThreadStep(t)

RunnerSpec ==
    Init /\ [][RunnerNext]_vars /\ WF_vars(WorkerRuns) /\ WF_vars(WaitReturns)

(***************************************************************************)
(* C20: a stop issued while the Runner runs (Enter, a confirmed delete-all *)
(* or the closing of the window) leads to Idle: the stop returns, and when *)
(* it has returned the loop has exited and no thread is left; while idle   *)
(* no background batch exists or starts; and the Runner leaves Idle only   *)
(* by a start, which creates exactly one loop.                             *)
(***************************************************************************)
Idle == ~WorkerRunning

C20_IdleHasNoLoop ==
    /\ Idle => (LiveLoops = {} /\ BackgroundBatches = {})
    /\ (Idle /\ gwait = "none") => (threads = <<>> /\ worker_thread = 0)

C20_StopStep ==
    /\ (gwait = "none" /\ gwait' # "none") =>
          /\ WorkerRunning
          /\ gwait' \in {"enter", "clear", "close"}
          /\ ~threads'[worker_thread'].keep_running
    /\ (gwait # "none" /\ gwait' = "none") =>
          /\ threads[worker_thread].pc = "finished"
          /\ Idle' /\ worker_thread' = 0 /\ threads' = <<>>
          /\ last'.inWait
    /\ (Idle /\ ~Idle') =>
          /\ last'.op = "start" /\ last'.out = "started"
          /\ Cardinality(LiveLoops') = 1
          /\ BackgroundBatches' = {}

C20_StopLeadsToIdle ==
    /\ []C20_IdleHasNoLoop
    /\ [][C20_StopStep]_vars
    /\ (gwait # "none") ~> (gwait = "none" /\ Idle /\ last.inWait)

\* Enter stopped a Runner that was in a batch; the handler has returned
C20_Witness ==
    /\ last.op = "enter" /\ last.out = "stopped" /\ last.inWait
    /\ Idle /\ threads = <<>>
    /\ pointer # UserPoint

(***************************************************************************)
(* C21: a mutation of the store by the GUI thread (delete, add, cycle of   *)
(* the click count) while a background batch is in flight does not make    *)
(* the batch skip a region that is in the store before and after the       *)
(* mutation (a region the loop had still to fetch stays ahead of the       *)
(* loop), the batch fetches no region twice, and every region it fetches   *)
(* is in the store when it is fetched.  A delete behind the place the loop *)
(* has reached moves the next region into that place: this fails.          *)
(***************************************************************************)
StoreMutation == last'.op \in {"delete", "add", "cycle"} /\ last'.out = "ok"

\* the regions the loop of f had still to fetch are still ahead of it
StaysAhead(f) ==
    \A j \in 1..Len(captures) : \A i \in 1..Len(captures') :
        (captures[j].id = captures'[i].id /\ j > f.idx) => i > f.idx

C21_MutationStep ==
    \A t \in BackgroundBatches :
        LET f == threads[t].frame
        IN  /\ StoreMutation => StaysAhead(f)
            /\ \A j \in 1..Len(f.seen) : \A k \in 1..Len(f.seen) :
                  j # k => f.seen[j] # f.seen[k]
            /\ ( /\ last'.op \in {"bg_step", "bg_return"}
                 /\ t <= Len(threads')
                 /\ (IF last'.op = "bg_return" THEN last'.f ELSE threads'[t].frame).idx
                        = f.idx + 1 )
               => \E i \in 1..Len(captures) :
                     captures[i] =
                        (IF last'.op = "bg_return" THEN last'.f
                         ELSE threads'[t].frame).cap

C21_MutationKeepsBatchWhole == [][C21_MutationStep]_vars

(***************************************************************************)
(* C22: a batch that fails in the background loop does not end the Runner: *)
(* the exception stays inside the batch, the thread goes back to its loop  *)
(* with its flag as it was and the Runner still running; while the flag is *)
(* true the loop then starts another batch over all regions; the flag      *)
(* becomes false only by a stop, and the loop ends only with the flag      *)
(* false.                                                                  *)
(***************************************************************************)
FailedInBackground == last.op = "bg_return" /\ last.f.pc = "raised"

C22_FailureStep ==
    \A t \in ThreadIds :
        /\ (threads[t].pc = "batch" /\ FailedInBackground' /\ threads'[t] # threads[t]) =>
              /\ threads'[t].pc = "loop"
              /\ threads'[t].keep_running = threads[t].keep_running
              /\ worker_thread' = worker_thread
              /\ worker_thread = t => WorkerRunning'
        /\ ( /\ t <= Len(threads')
             /\ threads[t].pc = "loop" /\ threads[t].keep_running
             /\ threads'[t].pc # "loop" ) =>
              /\ threads'[t].pc = "batch"
              /\ threads'[t].frame = NewFrame("all", TRUE, NoCapture)
        /\ (t <= Len(threads') /\ threads[t].keep_running /\ ~threads'[t].keep_running) =>
              (gwait = "none" /\ gwait' # "none" /\ t = worker_thread)
        /\ (t <= Len(threads') /\ threads[t].pc # "finished" /\ threads'[t].pc = "finished") =>
              (~threads[t].keep_running /\ gwait # "none")

C22_StillRunning ==
    (FailedInBackground /\ gwait = "none") =>
        /\ WorkerRunning
        /\ threads[worker_thread].pc = "loop"
        /\ threads[worker_thread].keep_running

C22_FailureDoesNotEndRunner ==
    /\ []C22_StillRunning
    /\ [][C22_FailureStep]_vars
    /\ (FailedInBackground /\ gwait = "none")
          ~> (BackgroundBatches # {} \/ gwait # "none" \/ closed)

\* a click raised in a background batch; the Runner is running, at its loop
C22_Witness ==
    /\ FailedInBackground /\ last.f.err = "click" /\ last.f.k = 1
    /\ gwait = "none"
    /\ WorkerRunning
    /\ threads[worker_thread].pc = "loop"
    /\ threads[worker_thread].keep_running
====
